---- MODULE Spec2Model ----
(***************************************************************************)
(* A model of oxyfloat: ArgoData (src/oxyfloat/ArgoData.py) and the cache  *)
(* loader's file naming (src/scripts/load_cache.py).                       *)
(*                                                                         *)
(* Strings are sequences of one-character strings, so that the formatting  *)
(* of a file name and the regular-expression search that parses it are     *)
(* computed character by character.  An optional value (Python's None or   *)
(* an int) is a set: {} is None and {n} is the int n.                      *)
(***************************************************************************)
EXTENDS Integers, Sequences, FiniteSets, TLC

\* ---------------------------------------------------------------- bounds
\* largest constraint value given on the loader's command line
MaxVal == 10
\* number of get_float_dataframe calls in one behaviour
MaxCalls == 2
\* number of profiles each float's catalog lists
MaxListing == 3
\* number of failures of the environment (a refused connection, a server
\* error, a failed ptrepack) in one behaviour
MaxFaults == 1
\* most rows of the status table
MaxFeed == 2
\* most levels of the pressure axis of a dataset under transform
MaxLevels == 3

\* ------------------------------------------------------ optional values
None == {}
Some(n) == {n}
IsNone(x) == x = {}
Val(x) == CHOOSE n \in x : TRUE
\* Python truthiness of None-or-int: None and 0 are false
Truthy(x) == x # {} /\ x # {0}

\* ------------------------------------------------------------- strings
DigitChars == <<"0", "1", "2", "3", "4", "5", "6", "7", "8", "9">>
IsDigit(c) == \E d \in 1..10 : DigitChars[d] = c
DigitVal(c) == (CHOOSE d \in 1..10 : DigitChars[d] = c) - 1

\* '{:d}'.format(n)
RECURSIVE FormatD(_)
FormatD(n) ==
    IF n < 0 THEN <<"-">> \o FormatD(-n)
    ELSE IF n < 10 THEN <<DigitChars[n + 1]>>
    ELSE FormatD(n \div 10) \o <<DigitChars[(n % 10) + 1]>>

\* int(s) for a string of decimal digits
RECURSIVE ParseInt(_)
ParseInt(s) ==
    IF Len(s) = 0 THEN 0
    ELSE 10 * ParseInt(SubSeq(s, 1, Len(s) - 1)) + DigitVal(s[Len(s)])

\* s[i:] starts with t
StartsAt(s, i, t) ==
    /\ i + Len(t) - 1 <= Len(s)
    /\ \A k \in 1..Len(t) : s[i + k - 1] = t[k]

\* t in s
Contains(s, t) == \E i \in 1..(Len(s) + 1) : StartsAt(s, i, t)

\* the longest run of digits of s that starts at position i
RECURSIVE DigitRun(_, _)
DigitRun(s, i) ==
    IF i <= Len(s) /\ IsDigit(s[i]) THEN <<s[i]>> \o DigitRun(s, i + 1)
    ELSE <<>>

\* re.compile(name + '([0-9]+)').search(s): the positions where it matches
MatchPositions(name, s) ==
    {i \in 1..Len(s) : StartsAt(s, i, name) /\ DigitRun(s, i + Len(name)) # <<>>}

\* (a variant whose group is one digit: the pattern name([0-9]) )
SearchGroupOneDigit(name, s) ==
    LET i == CHOOSE j \in MatchPositions(name, s) :
                 \A k \in MatchPositions(name, s) : j <= k
    IN  <<s[i + Len(name)]>>

\* m.group(1) of the leftmost match
SearchGroup(name, s) ==
    LET i == CHOOSE j \in MatchPositions(name, s) :
                 \A k \in MatchPositions(name, s) : j <= k
    IN  DigitRun(s, i + Len(name))

\* ------------------------------------------- class literals of ArgoData
_fixed_cache_base ==
    <<"o", "x", "y", "f", "l", "o", "a", "t", "_", "f", "i", "x", "e", "d",
      "_", "c", "a", "c", "h", "e">>
_ageRE == <<"a", "g", "e">>
_profilesRE == <<"p", "r", "o", "f", "i", "l", "e", "s">>
_pressureRE == <<"p", "r", "e", "s", "s", "u", "r", "e">>
HdfSuffix == <<".", "h", "d", "f">>

\* [a for a in dir(self) if a.endswith("RE")] with the leading '_' and the
\* trailing 'RE' lopped off; dir() lists names in alphabetical order
ParmNamesRE == <<"age", "pressure", "profiles">>
ParmNames == {"age", "pressure", "profiles"}
ParmPattern(parm) ==
    CASE parm = "age" -> _ageRE
      [] parm = "pressure" -> _pressureRE
      [] parm = "profiles" -> _profilesRE

\* the value returned where neither the caller nor the file limits a parameter
\* (10000000000 in the source; the model's integers are 32 bits wide and the
\* value is only ever compared with indices and pressures far below it)
Unlimited == 1000000000

\* ------------------------------------------ load_cache.short_cache_file
\* args is the command line's namespace: a function from the names it holds
\* to None-or-int.  A name the namespace lacks raises KeyError and a None
\* value raises ValueError in '{:d}'.format: both leave the token out.
RECURSIVE short_cache_file_from(_, _)
short_cache_file_from(args, k) ==
    IF k > Len(ParmNamesRE) THEN <<>>
    ELSE LET item == ParmNamesRE[k]
             tok == IF item \in DOMAIN args /\ ~IsNone(args[item])
                    THEN <<"_">> \o ParmPattern(item) \o FormatD(Val(args[item]))
                    ELSE <<>>
         IN  tok \o short_cache_file_from(args, k + 1)

short_cache_file(args) ==
    _fixed_cache_base \o short_cache_file_from(args, 1) \o HdfSuffix

\* ------------------------------------------ ArgoData._get_cache_file_parms
_get_cache_file_parms(cache_file) ==
    IF Contains(cache_file, _fixed_cache_base)
    THEN LET found == {p \in ParmNames :
                          MatchPositions(ParmPattern(p), cache_file) # {}}
         IN  [p \in found |-> ParseInt(SearchGroup(ParmPattern(p), cache_file))]
    ELSE [p \in {} |-> 0]

\* --------------------------------------- ArgoData._validate_cache_file_parm
\* parms is self.cache_file_parms, an optional value: None when the object
\* was built without a cache_file (the attribute does not exist, and reading
\* it raises AttributeError), else the decoded dictionary.
NoAttr == None

_validate_cache_file_parm(parms, parm, value) ==
    LET has == parms # NoAttr /\ parm \in DOMAIN Val(parms)
        cache_file_value == IF has THEN Some(Val(parms)[parm]) ELSE None
        \* KeyError: the dictionary lacks parm
        adj0 == IF parms # NoAttr /\ ~has THEN Some(Unlimited) ELSE value
        adj1 == IF Truthy(value) /\ Truthy(cache_file_value)
                THEN IF Val(value) > Val(cache_file_value)
                     THEN cache_file_value ELSE adj0
                ELSE IF ~Truthy(value) /\ Truthy(cache_file_value)
                     THEN cache_file_value
                     ELSE adj0
    IN  IF ~Truthy(adj1) THEN Unlimited ELSE Val(adj1)

\* ------------------------------------------------------------ datasets
\* the variables argument of __init__ (its default) and _coordinates
Variables ==
    {"TEMP_ADJUSTED", "PSAL_ADJUSTED", "DOXY_ADJUSTED", "PRES_ADJUSTED",
     "LATITUDE", "LONGITUDE", "JULD"}
_coordinates == {"PRES_ADJUSTED", "LATITUDE", "LONGITUDE", "JULD"}
\* self.variables ^ self._coordinates
DataVariables == (Variables \ _coordinates) \cup (_coordinates \ Variables)

\* a missing value (NaN); every measured value is >= 0
NaN == -1

\* pd.DataFrame(): no columns, no rows
EmptyDF == [cols |-> {}, rows |-> <<>>]
\* df.empty
IsEmptyDF(df) == df.cols = {} \/ df.rows = <<>>

\* A dataset, as xray.open_dataset(url) gives it:
\*   keys   the names in ds.keys()
\*   PRES   ds['PRES_ADJUSTED'].values[0], in hundredths of a decibar
\*   vals   vals[v] is ds[v].values: a sequence of record slots (N_PROF), each
\*          a sequence of values along the pressure axis
\*   err    the variables whose read raises pydap's ServerError
\*   JULD, LONGITUDE, LATITUDE  the first record slot of each
\* round(pres, 1), on hundredths
Round1(p) ==
    IF p >= 0 THEN ((p + 5) \div 10) * 10 ELSE 0 - ((((0 - p) + 5) \div 10) * 10)

\* ------------------------------------------------ ArgoData._get_pressures
\* the indices (from 0) kept by the loop: it breaks at the first p >= max_pressure.
\* max_pressure is a whole number of decibars, so p >= max_pressure exactly when
\* the whole part of p is.
RECURSIVE PresIndicesFrom(_, _, _)
PresIndicesFrom(pres, max_pressure, i) ==
    IF i > Len(pres) THEN <<>>
    ELSE IF pres[i] \div 100 >= max_pressure THEN <<>>
    ELSE <<i - 1>> \o PresIndicesFrom(pres, max_pressure, i + 1)

\* (a variant whose loop goes on after a p >= max_pressure: continue for break)
_get_pressuresContinue(ds, max_pressure) ==
    LET In(k) == ds.PRES[k + 1] \div 100 < max_pressure
        pres_indices == SelectSeq([k \in 1..Len(ds.PRES) |-> k - 1], In)
    IN  [pressures |-> [k \in 1..Len(pres_indices) |-> ds.PRES[pres_indices[k] + 1]],
         pres_indices |-> pres_indices]

_get_pressures(ds, max_pressure) ==
    LET pres_indices == PresIndicesFrom(ds.PRES, max_pressure, 1)
    IN  [pressures |-> [k \in 1..Len(pres_indices) |-> ds.PRES[pres_indices[k] + 1]],
         pres_indices |-> pres_indices]

\* ------------------------------------------ ArgoData._profile_to_dataframe
\* s.dropna().empty
AllNaN(s) == \A k \in 1..Len(s) : s[k] = NaN

\* the Series built for variable v: slot 0 at pres_indices, or slot 1 when
\* slot 0 holds no value and slot 1 exists (else IndexError: slot 0 is kept)
SeriesOf(ds, v, pres_indices) ==
    LET s0 == [k \in 1..Len(pres_indices) |-> ds.vals[v][1][pres_indices[k] + 1]]
    IN  IF AllNaN(s0) /\ Len(ds.vals[v]) >= 2
        THEN [k \in 1..Len(pres_indices) |-> ds.vals[v][2][pres_indices[k] + 1]]
        ELSE s0

\* the result is [exc, df]: exc names the exception that leaves the method
\* ("none" when it returns df)
_profile_to_dataframe(wmo, ds, max_pressure) ==
    IF \E v \in Variables : v \notin ds.keys
    THEN [exc |-> "RequiredVariableNotPresent", df |-> EmptyDF]
    ELSE IF "PRES_ADJUSTED" \in ds.err
    THEN [exc |-> "ServerError", df |-> EmptyDF]
    ELSE
    LET gp == _get_pressures(ds, max_pressure)
        n == Len(gp.pressures)
        cols == {v \in DataVariables : v \notin ds.err}
        cell(v, k) == IF v \in cols THEN SeriesOf(ds, v, gp.pres_indices)[k] ELSE NaN
    IN  IF n = 0 THEN [exc |-> "none", df |-> EmptyDF]
        ELSE IF {"JULD", "LONGITUDE", "LATITUDE"} \cap ds.err # {}
        THEN [exc |-> "ServerError", df |-> EmptyDF]
        ELSE IF cols = {} THEN [exc |-> "none", df |-> EmptyDF]
        ELSE [exc |-> "none",
              df |-> [cols |-> cols,
                      rows |-> [k \in 1..n |->
                                 [wmo |-> wmo, time |-> ds.JULD, lon |-> ds.LONGITUDE,
                                  lat |-> ds.LATITUDE,
                                  pressure |-> Round1(gp.pressures[k]),
                                  TEMP_ADJUSTED |-> cell("TEMP_ADJUSTED", k),
                                  PSAL_ADJUSTED |-> cell("PSAL_ADJUSTED", k),
                                  DOXY_ADJUSTED |-> cell("DOXY_ADJUSTED", k)]]]]

\* ----------------------------------------------- ArgoData._validate_oxygen
\* (a variant that discards the frame when any oxygen value is missing)
_validate_oxygenAny(df) ==
    IF "DOXY_ADJUSTED" \notin df.cols THEN [exc |-> "KeyError", df |-> df]
    ELSE IF \E k \in 1..Len(df.rows) : df.rows[k].DOXY_ADJUSTED = NaN
    THEN [exc |-> "none", df |-> EmptyDF]
    ELSE [exc |-> "none", df |-> df]

\* df['DOXY_ADJUSTED'] raises KeyError when the frame has no such column
_validate_oxygen(df) ==
    IF "DOXY_ADJUSTED" \notin df.cols THEN [exc |-> "KeyError", df |-> df]
    ELSE IF \A k \in 1..Len(df.rows) : df.rows[k].DOXY_ADJUSTED = NaN
    THEN [exc |-> "none", df |-> EmptyDF]
    ELSE [exc |-> "none", df |-> df]

\* -------------------------------------------------- ArgoData._save_profile
\* (a variant without the except clause)
_save_profileUncaught(wmo, ds, max_pressure, oxygen_required) ==
    LET r == _profile_to_dataframe(wmo, ds, max_pressure)
    IN  IF r.exc # "none" THEN r
        ELSE IF ~IsEmptyDF(r.df) /\ oxygen_required THEN _validate_oxygen(r.df)
        ELSE r

\* the frame handed to _put_df, or the exception that leaves the method before
\* the put (only RequiredVariableNotPresent is caught)
_save_profile(wmo, ds, max_pressure, oxygen_required) ==
    LET r == _profile_to_dataframe(wmo, ds, max_pressure)
    IN  IF r.exc = "RequiredVariableNotPresent" THEN [exc |-> "none", df |-> EmptyDF]
        ELSE IF r.exc # "none" THEN r
        ELSE IF ~IsEmptyDF(r.df) /\ oxygen_required THEN _validate_oxygen(r.df)
        ELSE r

\* (a variant that puts the rows of df first)
AppendDFFront(float_df, df) ==
    [cols |-> float_df.cols \cup df.cols, rows |-> df.rows \o float_df.rows]

\* float_df.append(df): the rows of df after those of float_df; a column that
\* one of the frames lacks is NaN in its rows
AppendDF(float_df, df) ==
    [cols |-> float_df.cols \cup df.cols, rows |-> float_df.rows \o df.rows]

\* -------------------------------------------------- ArgoData._float_profile
\* re.compile(r"(\d+_\d+).nc$").search(url): the match positions are the i
\* where a run of digits, '_', a run of digits, any one character and "nc" end
\* the string.  No match leaves m None, and m.group(1) raises AttributeError.
KeyMatches(url) ==
    {ij \in (1..Len(url)) \X (1..Len(url)) :
        /\ ij[1] < ij[2]
        /\ ij[2] + 3 = Len(url)
        /\ url[Len(url)] = "c" /\ url[Len(url) - 1] = "n"
        /\ \E u \in (ij[1] + 1)..(ij[2] - 1) :
              /\ url[u] = "_"
              /\ \A k \in ij[1]..(u - 1) : IsDigit(url[k])
              /\ \A k \in (u + 1)..ij[2] : IsDigit(url[k])}

\* (a variant whose group is the profile number alone: _(\d+).nc$ )
_float_profileNoFloat(url) ==
    IF KeyMatches(url) = {} THEN <<>>
    ELSE LET ij == CHOOSE m \in KeyMatches(url) :
                       \A o \in KeyMatches(url) : m[1] <= o[1]
             u == CHOOSE k \in ij[1]..ij[2] : url[k] = "_"
         IN  <<"P">> \o SubSeq(url, u + 1, ij[2])

\* 'P{:s}'.format(m.group(1)) of the leftmost match; <<>> stands for the
\* AttributeError
_float_profile(url) ==
    IF KeyMatches(url) = {} THEN <<>>
    ELSE LET ij == CHOOSE m \in KeyMatches(url) :
                       \A o \in KeyMatches(url) : m[1] <= o[1]
         IN  <<"P">> \o SubSeq(url, ij[1], ij[2])

\* ------------------------------------------------------- remote content
\* The global index feed (global_url): the 'file' column, each path split at
\* '/'.  Float "3" has no row.
GlobalMetaFeed ==
    << <<"aoml", "1", "1_meta.nc">>, <<"coriolis", "2", "2_meta.nc">> >>
\* _global_meta_to_df: the feed as a frame
_global_meta_to_df == [cols |-> {"file"}, rows |-> GlobalMetaFeed]

\* the urlPath of profile k of a float: R<wmo>_<k>.nc
UrlPath(wmo, k) == <<"R", wmo, "_">> \o FormatD(k) \o <<".", "n", "c">>
\* the catalog document of a float: its profiles, in document order
Catalog(wmo) == [k \in 1..MaxListing |-> UrlPath(wmo, k)]

\* The dataset served for a location.  JULD is the profile's own (its cycle
\* number here), so that the rows of two profiles differ.
FloatNumber(url) == ParseInt(DigitRun(url, 2))
ProfileNumber(url) == ParseInt(DigitRun(url, 4))
BaseDS(url) ==
    [keys |-> Variables,
     PRES |-> <<504, 1500, 800>>,
     vals |-> [v \in DataVariables |-> << <<7, 8, 9>> >>],
     err |-> {},
     JULD |-> ProfileNumber(url), LONGITUDE |-> 0, LATITUDE |-> 0]
\* no oxygen at the first level
GoodDS(url) ==
    [BaseDS(url) EXCEPT !.vals["DOXY_ADJUSTED"] = << <<NaN, 200, 210>> >>]
\* a configured variable is missing
NoVarDS(url) == [BaseDS(url) EXCEPT !.keys = Variables \ {"PSAL_ADJUSTED"}]
\* no oxygen value in the only record slot; the first pressure is 12 dbar
NoOxyDS(url) ==
    [BaseDS(url) EXCEPT !.PRES = <<1200, 300>>,
                        !.vals = [v \in DataVariables |->
                                    IF v = "DOXY_ADJUSTED" THEN << <<NaN, NaN>> >>
                                    ELSE << <<7, 8>> >>]]
\* oxygen in the second record slot only
Slot1DS(url) ==
    [BaseDS(url) EXCEPT !.vals["DOXY_ADJUSTED"] =
                            << <<NaN, NaN, NaN>>, <<190, 191, 192>> >>]

\* what the data server holds: the four kinds of dataset in turn, float 2
\* starting two kinds after float 1
RemoteDS(url) ==
    LET k == (ProfileNumber(url) + 2 * FloatNumber(url)) % 4
    IN  CASE k = 3 -> GoodDS(url)
          [] k = 0 -> NoVarDS(url)
          [] k = 1 -> Slot1DS(url)
          [] k = 2 -> NoOxyDS(url)

\* a read of the dataset: fault is the set of variables the server fails on
ServerFaults == {{}, {"DOXY_ADJUSTED"}, {"PRES_ADJUSTED"}}
ServedDS(url, fault) == [RemoteDS(url) EXCEPT !.err = fault]

\* ---------------------------------------------------------------- state
VARIABLES
    args,              \* load_cache: the command line's namespace
    vcall,             \* the last _validate_cache_file_parm call and its result
    cache_file,        \* self.cache_file (NoFile: the default file)
    cache_file_parms,  \* self.cache_file_parms
    oxygen_required,   \* self._oxygen_required
    dictOrder,         \* the order in which a dict of float numbers iterates
    store,             \* the HDF file: key -> value
    pc,                \* where get_float_dataframe stands
    call,              \* its arguments and the effective limits
    dac,               \* the items of get_dac_urls' dict, in iteration order
    fidx,              \* f of the float loop (from 1)
    urls,              \* opendap_urls of the current float
    i,                 \* i of the profile loop (from 0)
    float_df,          \* the aggregate
    net,               \* network fetches of the running call, by kind
    seen,              \* what each catalog fetch of the running call gave
    processed,         \* the profiles the running call has handled
    repacks,           \* the _repack_hdf runs of the running call
    nXform,            \* key -> number of runs of _profile_to_dataframe for it
    ncalls,            \* number of calls made
    faults,            \* number of failures of the environment so far
    prev,              \* the last finished call
    statusFeed,        \* the table served at status_url
    handles,           \* number of HDFStore handles open and not closed
    input,             \* the argument of the method under study
    ret                \* what that method gave: its value or its exception

vars ==
    <<args, vcall, cache_file, cache_file_parms, oxygen_required, dictOrder,
      store, pc, call, dac, fidx, urls, i, float_df, net, seen, processed, repacks,
      nXform, ncalls, faults, prev, statusFeed, handles, input, ret>>

\* what the methods outside get_float_dataframe work on
methodVars == <<statusFeed, handles, input, ret>>
namingVars == <<args, vcall, methodVars>>
objectVars == <<cache_file, cache_file_parms, oxygen_required, dictOrder>>

NoFile == <<>>
_GLOBAL_META == <<"g", "l", "o", "b", "a", "l", "_", "m", "e", "t", "a">>
NoCall == [wmo_list |-> <<>>, max_profiles |-> None, max_pressure |-> None,
           append_df |-> FALSE, eff_profiles |-> 0, eff_pressure |-> 0]
NoNet == [status |-> 0, global |-> 0, catalog |-> 0, profile |-> 0]
NoSeen == [w \in {} |-> <<>>]
ConnectionError == <<"ConnectionError">>
\* no method has run
NoRet == [exc |-> "no call"]
MethodsIdle ==
    /\ statusFeed = <<>>
    /\ handles = 0
    /\ input = <<>>
    /\ ret = NoRet
\* no call has finished yet
NoPrev == [exc |-> "no call", call |-> NoCall, seen |-> NoSeen, df |-> EmptyDF]

\* ------------------------------------------------------ the Cache Store
\* (a variant that takes an empty frame for a missing node)
HasKeyNonEmpty(st, name) == name \in DOMAIN st /\ ~IsEmptyDF(st[name])
\* _get_df raises KeyError when the file has no node of that name
HasKey(st, name) == name \in DOMAIN st
\* (a variant that loses the first row of the frame)
_get_dfShort(st, name) ==
    [st[name] EXCEPT !.rows = SubSeq(@, 2, Len(@))]
\* _get_df: df = store[name]
_get_df(st, name) == st[name]
\* (a variant that writes no node for an empty frame)
_put_dfSkipEmpty(st, df, name) ==
    IF IsEmptyDF(df) THEN st
    ELSE [k \in DOMAIN st \cup {name} |-> IF k = name THEN df ELSE st[k]]
\* _put_df: store[name] = df
_put_df(st, df, name) ==
    [k \in DOMAIN st \cup {name} |-> IF k = name THEN df ELSE st[k]]

\* ------------------------------------------------- ArgoData.get_dac_urls
\* the keys of dac_urls: the float numbers of the rows that are in the list
InList(x, l) == \E k \in 1..Len(l) : l[k] = x
DacKeys(df, desired_float_numbers) ==
    {df.rows[k][2] :
        k \in {j \in 1..Len(df.rows) : InList(df.rows[j][2], desired_float_numbers)}}
\* dac_urls.iteritems(): a dict iterates in the order of its hash table, which
\* is not the order of insertion
IterItems(keys, order) ==
    LET In(w) == w \in keys IN SelectSeq(order, In)

\* ----------------------------------------------------- ArgoData.__init__
CustomFile == <<"m", "y", ".", "h", "d", "f">>
FixedFile == short_cache_file([p \in {"profiles", "pressure"} |->
                                 IF p = "profiles" THEN Some(1) ELSE Some(10)])
\* the objects built: (cache_file, oxygen_required)
Objects ==
    {<<NoFile, TRUE>>, <<NoFile, FALSE>>, <<CustomFile, TRUE>>, <<FixedFile, TRUE>>}

DictOrders == { <<"1", "2">>, <<"2", "1">> }

Construct(file, oxy) ==
    /\ cache_file = file
    /\ cache_file_parms =
           IF file # NoFile THEN Some(_get_cache_file_parms(file)) ELSE NoAttr
    /\ oxygen_required = oxy

IdleFrame ==
    /\ call = NoCall
    /\ dac = <<>>
    /\ fidx = 0
    /\ urls = <<>>
    /\ i = 0
    /\ float_df = EmptyDF
    /\ net = NoNet
    /\ seen = NoSeen
    /\ processed = <<>>
    /\ repacks = <<>>
    /\ ncalls = 0
    /\ faults = 0
    /\ prev = NoPrev

Init ==
    /\ args = [p \in {} |-> None]
    /\ vcall = <<>>
    /\ \E o \in Objects : Construct(o[1], o[2])
    /\ dictOrder \in DictOrders
    /\ store = [k \in {} |-> EmptyDF]
    /\ nXform = [k \in {} |-> 0]
    /\ pc = "idle"
    /\ IdleFrame
    /\ MethodsIdle

\* ------------------------------------------ ArgoData.get_float_dataframe
\* the call ends: the frame is dropped and the outcome recorded (of a call
\* that raised, the exception alone)
Finish(exc) ==
    /\ pc' = "idle"
    /\ prev' = IF exc = "none"
                THEN [exc |-> exc, call |-> call, seen |-> seen, df |-> float_df]
                ELSE [exc |-> exc, call |-> NoCall, seen |-> NoSeen, df |-> EmptyDF]
    /\ call' = NoCall
    /\ dac' = <<>>
    /\ fidx' = 0
    /\ urls' = <<>>
    /\ i' = 0
    /\ float_df' = EmptyDF
    /\ net' = NoNet
    /\ seen' = NoSeen
    /\ processed' = <<>>
    /\ repacks' = <<>>

\* lines 394-398: the limits are validated and get_dac_urls reads the global
\* index from the cache or, on KeyError, fetches it and puts it there
Call(wmo_list, max_profiles, max_pressure, append_df) ==
    /\ pc = "idle"
    /\ ncalls < MaxCalls
    /\ ncalls' = ncalls + 1
    /\ LET miss == ~HasKey(store, _GLOBAL_META)
           st == IF miss THEN _put_df(store, _global_meta_to_df, _GLOBAL_META)
                 ELSE store
       IN  /\ store' = st
           /\ net' = [NoNet EXCEPT !.global = IF miss THEN 1 ELSE 0]
           /\ dac' = IterItems(DacKeys(_get_df(st, _GLOBAL_META), wmo_list), dictOrder)
    /\ call' = [wmo_list |-> wmo_list, max_profiles |-> max_profiles,
                max_pressure |-> max_pressure, append_df |-> append_df,
                eff_profiles |->
                    _validate_cache_file_parm(cache_file_parms, "profiles", max_profiles),
                eff_pressure |->
                    _validate_cache_file_parm(cache_file_parms, "pressure", max_pressure)]
    /\ float_df' = EmptyDF
    /\ fidx' = 1
    /\ pc' = "float"
    /\ UNCHANGED <<namingVars, objectVars, urls, i, seen, processed, repacks, nXform,
                   faults, prev>>

\* (a variant without the except clause: the ConnectionError leaves the call)
ListProfilesRaise(connected) ==
    /\ pc = "float"
    /\ fidx <= Len(dac)
    /\ connected \/ faults < MaxFaults
    /\ faults' = IF connected THEN faults ELSE faults + 1
    /\ IF connected
       THEN /\ urls' = Catalog(dac[fidx])
            /\ seen' = [w \in DOMAIN seen \cup {dac[fidx]} |->
                          IF w = dac[fidx] THEN Catalog(dac[fidx]) ELSE seen[w]]
            /\ net' = [net EXCEPT !.catalog = @ + 1]
            /\ i' = 0
            /\ pc' = "profile"
            /\ UNCHANGED <<call, dac, fidx, float_df, processed, repacks, prev>>
       ELSE Finish("ConnectionError")
    /\ UNCHANGED <<namingVars, objectVars, store, nXform, ncalls>>

\* line 401, get_profile_opendap_urls: the catalog is fetched at every call; a
\* ConnectionError gives the empty list
ListProfiles(connected) ==
    /\ pc = "float"
    /\ fidx <= Len(dac)
    /\ connected \/ faults < MaxFaults
    /\ faults' = IF connected THEN faults ELSE faults + 1
    /\ LET outcome == IF connected THEN Catalog(dac[fidx]) ELSE ConnectionError
       IN  /\ urls' = IF connected THEN outcome ELSE <<>>
           /\ seen' = [w \in DOMAIN seen \cup {dac[fidx]} |->
                         IF w = dac[fidx] THEN outcome ELSE seen[w]]
    /\ net' = [net EXCEPT !.catalog = @ + 1]
    /\ i' = 0
    /\ pc' = "profile"
    /\ UNCHANGED <<namingVars, objectVars, store, call, dac, fidx, float_df,
                   processed, repacks, nXform, ncalls, prev>>

\* line 403: the test that ends the profile loop early
StopAt(idx, max_profiles) == idx > max_profiles

InLoop == pc = "profile" /\ i < Len(urls) /\ ~StopAt(i, call.eff_profiles)

\* lines 406-408, 413-415: the key is in the file
ProfileHit ==
    /\ InLoop
    /\ LET key == _float_profile(urls[i + 1])
       IN  /\ HasKey(store, key)
           /\ float_df' = IF call.append_df
                           THEN AppendDF(float_df, _get_df(store, key))
                           ELSE float_df
           /\ processed' = Append(processed,
                                  [wmo |-> dac[fidx], i |-> i, key |-> key, how |-> "get",
                                   fault |-> {}])
    /\ i' = i + 1
    /\ UNCHANGED <<namingVars, objectVars, store, pc, call, dac, fidx, urls, net,
                   seen, repacks, nXform, ncalls, faults, prev>>

\* lines 409-415: KeyError, so _save_profile fetches the profile and puts the
\* frame; an exception other than RequiredVariableNotPresent leaves the call
ProfileMiss(fault) ==
    /\ InLoop
    /\ fault = {} \/ faults < MaxFaults
    /\ faults' = IF fault = {} THEN faults ELSE faults + 1
    /\ LET url == urls[i + 1]
           key == _float_profile(url)
           r == _save_profile(dac[fidx], ServedDS(url, fault), call.eff_pressure,
                              oxygen_required)
       IN  /\ ~HasKey(store, key)
           /\ nXform' = [k \in DOMAIN nXform \cup {key} |->
                           IF k \in DOMAIN nXform
                           THEN nXform[k] + (IF k = key THEN 1 ELSE 0) ELSE 1]
           /\ IF r.exc = "none"
              THEN /\ store' = _put_df(store, r.df, key)
                   /\ float_df' = IF call.append_df THEN AppendDF(float_df, r.df)
                                   ELSE float_df
                   /\ processed' = Append(processed,
                          [wmo |-> dac[fidx], i |-> i, key |-> key, how |-> "save",
                           fault |-> fault])
                   /\ i' = i + 1
                   /\ net' = [net EXCEPT !.profile = @ + 1]
                   /\ UNCHANGED <<pc, call, dac, fidx, urls, seen, repacks, prev>>
              ELSE /\ store' = store
                   /\ Finish(r.exc)
    /\ UNCHANGED <<namingVars, objectVars, ncalls>>

\* (a variant that compacts only after a float that listed profiles)
RepackIfProfiles(ok) ==
    /\ pc = "profile"
    /\ i >= Len(urls) \/ StopAt(i, call.eff_profiles)
    /\ ok \/ faults < MaxFaults
    /\ faults' = IF ok THEN faults ELSE faults + 1
    /\ IF ok \/ urls = <<>>
       THEN /\ fidx' = fidx + 1
            /\ pc' = "float"
            /\ repacks' = IF urls = <<>> THEN repacks
                          ELSE Append(repacks, [wmo |-> dac[fidx], at |-> Len(processed)])
            /\ UNCHANGED <<call, dac, urls, i, float_df, net, seen, processed, prev>>
       ELSE Finish("IOError")
    /\ UNCHANGED <<namingVars, objectVars, store, nXform, ncalls>>

\* lines 402-405, 417-418: the listing is exhausted, or i > max_profiles
\* breaks, and _repack_hdf runs: ptrepack writes a copy of the file to
\* tmp_file, which move() puts in the file's place.  A ptrepack that fails has
\* written no tmp_file, and move() raises IOError, which leaves the call.
Repack(ok) ==
    /\ pc = "profile"
    /\ i >= Len(urls) \/ StopAt(i, call.eff_profiles)
    /\ ok \/ faults < MaxFaults
    /\ faults' = IF ok THEN faults ELSE faults + 1
    /\ IF ok
       THEN /\ fidx' = fidx + 1
            /\ pc' = "float"
            /\ repacks' = Append(repacks, [wmo |-> dac[fidx], at |-> Len(processed)])
            /\ UNCHANGED <<call, dac, urls, i, float_df, net, seen, processed, prev>>
       ELSE Finish("IOError")
    /\ UNCHANGED <<namingVars, objectVars, store, nXform, ncalls>>

\* line 420: return float_df
Return ==
    /\ pc = "float"
    /\ fidx > Len(dac)
    /\ Finish("none")
    /\ UNCHANGED <<namingVars, objectVars, store, nXform, ncalls, faults>>

\* the calls tried: (wmo_list, max_profiles, max_pressure, append_df); the
\* last is load_cache's, which does not build the aggregate.  Float "3" is
\* not in the global index.
CallArgs ==
    { << <<"2", "1">>, None, None, TRUE >>,
      << <<"2", "1">>, Some(1), Some(10), TRUE >>,
      << <<"3", "1">>, Some(1), None, TRUE >>,
      << <<"3", "1">>, None, Some(10), TRUE >>,
      << <<"2", "1">>, None, None, FALSE >> }

Next ==
    \/ \E a \in CallArgs : Call(a[1], a[2], a[3], a[4])
    \/ \E connected \in BOOLEAN : ListProfiles(connected)
    \/ ProfileHit
    \/ \E fault \in ServerFaults : ProfileMiss(fault)
    \/ \E ok \in BOOLEAN : Repack(ok)
    \/ Return

Spec == Init /\ [][Next]_vars

\* ------------------------------------------------- the naming of cache files
\* A second specification: load_cache names a cache file from its command
\* line, ArgoData is built on the file, and one limit is validated.
ArgValues == {None} \cup {Some(n) : n \in 0..MaxVal}
Namespaces ==
    UNION {[names -> ArgValues] : names \in SUBSET ParmNames}
CacheDirs == {<<"/", "t", "m", "p", "/">>}
CustomNames == {CustomFile, <<"a", "g", "e", "5", ".", "h", "d", "f">>}
Requests == {None} \cup {Some(n) : n \in 0..(MaxVal + 1)}

InitNaming ==
    /\ args = [p \in {} |-> None]
    /\ vcall = <<>>
    /\ cache_file = NoFile
    /\ cache_file_parms = NoAttr
    /\ oxygen_required = TRUE
    /\ dictOrder = <<"1", "2">>
    /\ store = [k \in {} |-> EmptyDF]
    /\ nXform = [k \in {} |-> 0]
    /\ pc = "start"
    /\ IdleFrame
    /\ MethodsIdle

namingFrame ==
    <<oxygen_required, dictOrder, store, call, dac, fidx, urls, i, float_df, net,
      seen, processed, repacks, nXform, ncalls, faults, prev, methodVars>>

\* load_cache.process: the file is named by short_cache_file and ArgoData is
\* built on it (__init__, lines 100-102)
Load(a, dir) ==
    /\ pc = "start"
    /\ args' = a
    /\ LET file == dir \o short_cache_file(a)
       IN  /\ cache_file' = file
           /\ cache_file_parms' = Some(_get_cache_file_parms(file))
    /\ pc' = "loaded"
    /\ UNCHANGED <<vcall, namingFrame>>

\* ArgoData(cache_file=name), a name of the user's
OpenCustom(name) ==
    /\ pc = "start"
    /\ cache_file' = name
    /\ cache_file_parms' = Some(_get_cache_file_parms(name))
    /\ pc' = "custom"
    /\ UNCHANGED <<args, vcall, namingFrame>>

\* ArgoData(): the default file, and no cache_file_parms attribute
OpenDefault ==
    /\ pc = "start"
    /\ cache_file' = NoFile
    /\ cache_file_parms' = NoAttr
    /\ pc' = "default"
    /\ UNCHANGED <<args, vcall, namingFrame>>

\* get_float_dataframe, lines 394-395: one limit is validated
Validate(parm, value) ==
    /\ pc \in {"loaded", "custom", "default"}
    /\ vcall = <<>>
    /\ vcall' = <<[parm |-> parm, value |-> value,
                   result |-> _validate_cache_file_parm(cache_file_parms, parm, value)]>>
    /\ UNCHANGED <<args, cache_file, cache_file_parms, pc, namingFrame>>

NextNaming ==
    \/ \E a \in Namespaces, dir \in CacheDirs : Load(a, dir)
    \/ \E name \in CustomNames : OpenCustom(name)
    \/ OpenDefault
    \/ \E parm \in {"profiles", "pressure"}, value \in Requests : Validate(parm, value)

SpecNaming == InitNaming /\ [][NextNaming]_vars

\* ------------------------------------- ArgoData.get_oxy_floats_from_status
\* A third specification: the status table is loaded cache-first and
\* queried.  The file may fail a read (IOError from HDFStore or from
\* store[name]) and a write.
_STATUS == <<"s", "t", "a", "t", "u", "s">>
StatusRow(wmo, oxygen, greylist, age) ==
    [WMO |-> wmo, OXYGEN |-> oxygen, GREYLIST |-> greylist, AGE |-> age]
\* the rows a status table may hold
StatusRows ==
    { StatusRow(1900650, 1, 0, 400), StatusRow(2, 1, 0, 0), StatusRow(3, 0, 0, 500),
      StatusRow(4, 1, 1, 500), StatusRow(5, 1, 0, 339), StatusRow(6, 1, 0, 340) }
StatusFeeds == UNION {[1..n -> StatusRows] : n \in 0..MaxFeed}
\* _status_to_df: the feed as a frame
_status_to_df(feed) ==
    [cols |-> {"WMO", "OXYGEN", "GREYLIST", "AGE"}, rows |-> feed]
\* the thresholds tried
AgeArgs == {0 - 1, 0, 340, 341}

\* (a variant of the query without the test AGE != 0)
StatusQueryAnyAge(row, age_gte) ==
    row.OXYGEN = 1 /\ row.GREYLIST = 0 /\ row.AGE >= age_gte
\* the query of lines 255-256 on one row
StatusQuery(row, age_gte) ==
    row.OXYGEN = 1 /\ row.GREYLIST = 0 /\ row.AGE # 0 /\ row.AGE >= age_gte

\* odf['WMO'].tolist()
RECURSIVE WmoColumn(_, _)
WmoColumn(rows, age_gte) ==
    IF rows = <<>> THEN <<>>
    ELSE (IF StatusQuery(Head(rows), age_gte) THEN <<Head(rows).WMO>> ELSE <<>>)
             \o WmoColumn(Tail(rows), age_gte)

\* what the reads and the write of one call meet: the first _get_df may raise
\* IOError; _put_df may fail before the file is open, or at store[name] = df,
\* after which nothing closes the handle (lines 125-134 have no finally)
GetOutcomes == {"ok", "IOError"}
PutOutcomes == {"ok", "openFails", "writeFails"}

\* ArgoData() on an empty default file, no call made
DefaultObject ==
    /\ args = [p \in {} |-> None]
    /\ vcall = <<>>
    /\ cache_file = NoFile
    /\ cache_file_parms = NoAttr
    /\ oxygen_required = TRUE
    /\ dictOrder = <<"1", "2">>
    /\ store = [k \in {} |-> EmptyDF]
    /\ nXform = [k \in {} |-> 0]
    /\ pc = "idle"
    /\ IdleFrame

InitStatus ==
    /\ DefaultObject
    /\ statusFeed \in StatusFeeds
    /\ handles = 0
    /\ input = <<>>
    /\ ret = NoRet

statusFrame ==
    <<args, vcall, objectVars, pc, call, dac, fidx, urls, i, float_df, net, seen,
      processed, repacks, nXform, prev, statusFeed, input>>

\* lines 248-258: df is read from the file; on IOError or KeyError the feed
\* is fetched, put and read back; the query gives the list
GetOxyFloats(age_gte, getOutcome, putOutcome) ==
    /\ pc = "idle"
    /\ ncalls < MaxCalls
    /\ ncalls' = ncalls + 1
    /\ LET got == IF getOutcome = "IOError" THEN "IOError"
                  ELSE IF HasKey(store, _STATUS) THEN "ok" ELSE "KeyError"
           failed == (IF getOutcome = "ok" THEN 0 ELSE 1)
                     + (IF got # "ok" /\ putOutcome # "ok" THEN 1 ELSE 0)
       IN  /\ faults + failed <= MaxFaults
           /\ faults' = faults + failed
           /\ IF got = "ok"
              THEN /\ store' = store
                   /\ handles' = handles
                   /\ putOutcome = "ok"
                   /\ ret' = [exc |-> "none", age_gte |-> age_gte, get |-> got,
                              fetched |-> 0, put |-> FALSE,
                              value |-> WmoColumn(_get_df(store, _STATUS).rows, age_gte)]
              ELSE IF putOutcome = "ok"
              THEN LET st == _put_df(store, _status_to_df(statusFeed), _STATUS)
                   IN  /\ store' = st
                       /\ handles' = handles
                       /\ ret' = [exc |-> "none", age_gte |-> age_gte, get |-> got,
                                  fetched |-> 1, put |-> TRUE,
                                  value |-> WmoColumn(_get_df(st, _STATUS).rows, age_gte)]
              ELSE /\ store' = store
                   /\ handles' = handles + (IF putOutcome = "writeFails" THEN 1 ELSE 0)
                   /\ ret' = [exc |-> "IOError", age_gte |-> age_gte, get |-> got,
                              fetched |-> 1, put |-> FALSE, value |-> <<>>]
    /\ UNCHANGED statusFrame

NextStatus ==
    \E age_gte \in AgeArgs, g \in GetOutcomes, p \in PutOutcomes :
        GetOxyFloats(age_gte, g, p)

SpecStatus == InitStatus /\ [][NextStatus]_vars

\* -------------------------------------------- the key of a profile location
\* A fourth specification: _float_profile on two locations.  A location is a
\* directory, then R or D (real-time or delayed-mode file), the float's id,
\* '_', the profile number and ".nc".
KeyDirs == { <<"/", "d", "/">>, <<"/", "7", "_", "8", "/">> }
KeyPrefixes == {"R", "D"}
KeyFloats == { <<"1">>, <<"1", "2">>, <<"1", "9", "0", "0", "6", "5", "0">> }
KeyProfiles == { <<"0", "0", "3">>, <<"3">>, <<"1", "2">> }
KeyLocations ==
    [dir : KeyDirs, prefix : KeyPrefixes, wmo : KeyFloats, profile : KeyProfiles]
\* the location as the catalog gives it
LocationUrl(l) ==
    l.dir \o <<l.prefix>> \o l.wmo \o <<"_">> \o l.profile \o <<".", "n", "c">>

InitKey ==
    /\ DefaultObject
    /\ statusFeed = <<>>
    /\ handles = 0
    /\ input \in KeyLocations \X KeyLocations
    /\ ret = NoRet

keyFrame ==
    <<args, vcall, objectVars, store, pc, call, dac, fidx, urls, i, float_df, net,
      seen, processed, repacks, nXform, ncalls, faults, prev, statusFeed, handles, input>>

\* key = self._float_profile(url), for each of the two locations
FloatProfile ==
    /\ ret = NoRet
    /\ ret' = [exc |-> "none",
               value |-> <<_float_profile(LocationUrl(input[1])),
                           _float_profile(LocationUrl(input[2]))>>]
    /\ UNCHANGED keyFrame

NextKey == FloatProfile

SpecKey == InitKey /\ [][NextKey]_vars

\* ------------------------------------------ the locations a catalog lists
\* A further specification: get_profile_opendap_urls on a catalog document,
\* then the key of each location as the profile loop of get_float_dataframe
\* derives it.  A document is the urlpath attributes of its dataset elements,
\* in document order: real-time and delayed-mode profiles, a descending
\* profile (R1_1D.nc), the float's multi-profile file and a text file.
ListingDir == <<"a", "/", "1", "/">>
ListingNames ==
    { <<"R", "1", "_", "1", ".", "n", "c">>,
      <<"D", "1", "_", "2", ".", "n", "c">>,
      <<"R", "1", "_", "1", "2", ".", "n", "c">>,
      <<"R", "1", "_", "1", "D", ".", "n", "c">>,
      <<"1", "_", "p", "r", "o", "f", ".", "n", "c">>,
      <<"R", "1", "_", "1", ".", "t", "x", "t">> }
ListingEntries == {ListingDir \o n : n \in ListingNames}
CatalogDocuments == UNION {[1..n -> ListingEntries] : n \in 0..MaxListing}

\* re.compile("nc$") searched in the urlpath attribute
EndsInNc(urlpath) ==
    /\ Len(urlpath) >= 2
    /\ urlpath[Len(urlpath) - 1] = "n"
    /\ urlpath[Len(urlpath)] = "c"

\* what follows the server in base_url
DodsC == <<"/", "d", "o", "d", "s", "C", "/">>

\* for e in soup.findAll('dataset', attrs={'urlpath': re.compile("nc$")}):
\*     urls.append(base_url + e['urlpath'])
get_profile_opendap_urls(doc) ==
    LET kept == SelectSeq(doc, EndsInNc)
    IN  [k \in 1..Len(kept) |-> DodsC \o kept[k]]

\* the locations the profile loop gets through: all, or those before the
\* first for which _float_profile raises
KeyedBefore(opendap_urls) ==
    IF \A k \in 1..Len(opendap_urls) : _float_profile(opendap_urls[k]) # <<>>
    THEN Len(opendap_urls)
    ELSE (CHOOSE k \in 1..Len(opendap_urls) :
              /\ _float_profile(opendap_urls[k]) = <<>>
              /\ \A j \in 1..(k - 1) : _float_profile(opendap_urls[j]) # <<>>) - 1

InitListing ==
    /\ DefaultObject
    /\ statusFeed = <<>>
    /\ handles = 0
    /\ input \in CatalogDocuments
    /\ ret = NoRet

\* opendap_urls = self.get_profile_opendap_urls(dac_url), then
\* key = self._float_profile(url) for each url in turn
ListKeys ==
    /\ ret = NoRet
    /\ LET opendap_urls == get_profile_opendap_urls(input)
           n == KeyedBefore(opendap_urls)
       IN  ret' = [exc |-> IF n = Len(opendap_urls) THEN "none" ELSE "AttributeError",
                   urls |-> opendap_urls,
                   keys |-> [k \in 1..n |-> _float_profile(opendap_urls[k])]]
    /\ UNCHANGED keyFrame

NextListing == ListKeys

SpecListing == InitListing /\ [][NextListing]_vars

\* ---------------------------------------------- the transform of a dataset
\* A fifth specification: _profile_to_dataframe on a dataset of any pressure
\* axis, in hundredths of a decibar: 5.01 and 5.04 round to the same tenth,
\* 9.96 rounds to 10.0.
AxisValues == {501, 504, 996, 1500}
PressureAxes == UNION {[1..n -> AxisValues] : n \in 0..MaxLevels}
\* the dataset of float "1", profile 1, with pressure axis pres
AxisDS(pres) ==
    [BaseDS(UrlPath("1", 1)) EXCEPT
        !.PRES = pres,
        !.vals = [v \in DataVariables |-> << [k \in 1..Len(pres) |-> 7] >>]]
XformLimits == {10, Unlimited}

InitXform ==
    /\ DefaultObject
    /\ statusFeed = <<>>
    /\ handles = 0
    /\ input \in [pres : PressureAxes, max_pressure : XformLimits]
    /\ ret = NoRet

\* df = self._profile_to_dataframe(wmo, url, max_pressure)
ProfileToDataframe ==
    /\ ret = NoRet
    /\ ret' = _profile_to_dataframe("1", AxisDS(input.pres), input.max_pressure)
    /\ UNCHANGED keyFrame

NextXform == ProfileToDataframe

SpecXform == InitXform /\ [][NextXform]_vars

\* ------------------------------------------- the selection of the pressures
\* A sixth specification: _get_pressures as _profile_to_dataframe calls it
\* (line 199), and the frame that comes of the selection.
GetPressures ==
    /\ ret = NoRet
    /\ ret' = [exc |-> "none",
               value |-> _get_pressures(AxisDS(input.pres), input.max_pressure),
               table |-> _profile_to_dataframe("1", AxisDS(input.pres),
                                               input.max_pressure)]
    /\ UNCHANGED keyFrame

NextPressures == GetPressures

SpecPressures == InitXform /\ [][NextPressures]_vars

\* ======================================================== the claims
\* ---- Cache Naming/Constraints (under SpecNaming)

\* the constraints the command line sets
SetParms(a) == {p \in DOMAIN a : ~IsNone(a[p])}
\* a limit has been validated against a file that declares a value for it
Declared ==
    /\ vcall # <<>>
    /\ cache_file_parms # NoAttr
    /\ vcall[1].parm \in DOMAIN Val(cache_file_parms)
DeclaredValue == Val(cache_file_parms)[vcall[1].parm]

\* C6 (as claimed): when the file declares value v for a parameter, a request
\* r > v yields v, an unset request yields v, a request 0 < r <= v yields r,
\* and so the effective value never exceeds v.
C6_ClampLaw ==
    Declared =>
        LET v == DeclaredValue
            r == vcall[1].value
            out == vcall[1].result
        IN  /\ (~IsNone(r) /\ Val(r) > v) => out = v
            /\ IsNone(r) => out = v
            /\ (~IsNone(r) /\ 0 < Val(r) /\ Val(r) <= v) => out = Val(r)
            /\ out <= v

\* C7: decoding the name the encoder produced from positive constraints gives
\* exactly the set constraints with their values, and nothing for an unset
\* one; a name without the fixed-cache base decodes to no constraints.
C7_NamingRoundTrip ==
    /\ (pc = "loaded" /\ \A p \in SetParms(args) : Val(args[p]) >= 1) =>
           cache_file_parms = Some([p \in SetParms(args) |-> Val(args[p])])
    /\ pc = "custom" => cache_file_parms = Some([p \in {} |-> 0])

\* C7's case: age and profiles are set (one of them with two digits),
\* pressure is not, and the decoded dictionary holds the two
C7_Witness ==
    /\ pc = "loaded"
    /\ SetParms(args) = {"age", "profiles"}
    /\ args["age"] = Some(10) /\ args["profiles"] = Some(1)
    /\ "pressure" \in DOMAIN args
    /\ cache_file_parms = Some([p \in {"age", "profiles"} |->
                                  IF p = "age" THEN 10 ELSE 1])

\* ---- get_float_dataframe (under Spec)

\* the profile keys of the file
ProfileKeys(st) == DOMAIN st \ {_GLOBAL_META}
\* the entries of the running call's log
Entries == {processed[k] : k \in 1..Len(processed)}
\* the loop over the floats is over and the call is about to return float_df
AboutToReturn == pc = "float" /\ fidx > Len(dac)
\* the running call repeats the last finished call: same arguments, and the
\* catalogs gave what they gave then
SecondIdentical ==
    /\ AboutToReturn
    /\ prev.exc = "none"
    /\ prev.call = call
    /\ prev.seen = seen
\* the object is opened on a fixed cache file
FixedCache == cache_file # NoFile /\ Contains(cache_file, _fixed_cache_base)

\* C1: once a key is in the file, no step of any call runs the transform for
\* it again or changes the frame stored under it, an empty frame included.
C1_KeyAuthoritative ==
    [][\A k \in DOMAIN store :
          /\ k \in DOMAIN store'
          /\ store'[k] = store[k]
          /\ k \in DOMAIN nXform => nXform'[k] = nXform[k]]_vars

\* C1's case: a second call has read, without a transform, a key under which
\* the first call stored an empty frame
C1_Witness ==
    /\ ncalls = 2
    /\ \E e \in Entries :
          /\ e.how = "get"
          /\ store[e.key] = EmptyDF
          /\ nXform[e.key] = 1

\* C2 (as claimed): a profile whose index in the listing is >= the effective
\* max_profiles is not processed.
C2_MaxProfiles ==
    \A e \in Entries : e.i < call.eff_profiles

\* C3 (as claimed): on a fixed cache file no step of get_float_dataframe changes
\* the keys or the frames of the file.
C3_FixedCacheReadOnly ==
    [][FixedCache => store' = store]_vars

\* C4: a call that repeats the last finished call is about to return the
\* frame that call returned: same rows, same values, same order.
C4_SameAggregate ==
    SecondIdentical => float_df = prev.df

\* C4's case: the repeated call has read from the file and returns rows
C4_Witness ==
    /\ SecondIdentical
    /\ ncalls = 2
    /\ float_df.rows # <<>>
    /\ \E e \in Entries : e.how = "get" /\ store[e.key].rows # <<>>
    /\ float_df = prev.df

\* C5 (as claimed): a call that repeats the last finished call makes no network
\* fetch of any kind.
C5_NoFetch ==
    SecondIdentical => net = NoNet

\* C5 (amended): a call that repeats the last finished call fetches neither
\* the global index nor any profile data, and fetches the catalog document of
\* every float it resolved, once.
C5_OnlyCatalogs ==
    SecondIdentical =>
        /\ net.status = 0
        /\ net.global = 0
        /\ net.profile = 0
        /\ net.catalog = Len(dac)

\* C5's case: the repeated call went through profiles of two floats, all of
\* them read from the file
C5_Witness ==
    /\ SecondIdentical
    /\ Len(dac) = 2
    /\ net.catalog = 2
    /\ Len(processed) >= 2
    /\ \A e \in Entries : e.how = "get"

\* the recoverable outcomes of the transform of dataset ds
MissingVariable(ds) == \E v \in Variables : v \notin ds.keys
EmptySelection(ds, max_pressure) ==
    ~MissingVariable(ds) /\ (ds.PRES = <<>> \/ ds.PRES[1] \div 100 >= max_pressure)
OxygenMissing(df) ==
    /\ "DOXY_ADJUSTED" \in df.cols
    /\ df.rows # <<>>
    /\ \A k \in 1..Len(df.rows) : df.rows[k].DOXY_ADJUSTED = NaN
NoOxygen(wmo, ds, max_pressure) ==
    /\ ~MissingVariable(ds)
    /\ ~EmptySelection(ds, max_pressure)
    /\ OxygenMissing(_profile_to_dataframe(wmo, ds, max_pressure).df)
\* a step that runs the transform, the servers answering
FetchStep == InLoop /\ nXform' # nXform /\ faults' = faults

\* C8: a transform that finds a variable missing, selects no pressure, or
\* (oxygen being required) finds no oxygen value stores an empty frame under
\* the key and the loop goes on to the next profile; reading a key that holds
\* an empty frame fetches nothing and adds nothing to the aggregate.
C8_RecoverableOutcomes ==
    [][/\ FetchStep =>
            LET url == urls[i + 1]
                ds == RemoteDS(url)
                key == _float_profile(url)
            IN  (\/ MissingVariable(ds)
                 \/ EmptySelection(ds, call.eff_pressure)
                 \/ oxygen_required /\ NoOxygen(dac[fidx], ds, call.eff_pressure))
                => /\ pc' = "profile"
                   /\ i' = i + 1
                   /\ key \in DOMAIN store'
                   /\ store'[key] = EmptyDF
                   /\ float_df' = float_df
       /\ (InLoop /\ HasKey(store, _float_profile(urls[i + 1]))
                  /\ store[_float_profile(urls[i + 1])] = EmptyDF)
            => /\ pc' = "profile"
               /\ i' = i + 1
               /\ store' = store
               /\ nXform' = nXform
               /\ net' = net
               /\ float_df' = float_df]_vars

\* C8's case: a second call has read the empty frames that the first call
\* stored for a dataset of each kind
C8_Witness ==
    /\ ncalls = 2
    /\ oxygen_required
    /\ call.eff_pressure = 10
    /\ \A kind \in 1..3 :
          \E e \in Entries :
             LET url == seen[e.wmo][e.i + 1]
                 ds == RemoteDS(url)
             IN  /\ e.how = "get"
                 /\ store[e.key] = EmptyDF
                 /\ nXform[e.key] = 1
                 /\ CASE kind = 1 -> MissingVariable(ds)
                      [] kind = 2 -> EmptySelection(ds, 10)
                      [] kind = 3 -> NoOxygen(e.wmo, ds, 10)

\* C9: when the transformed frame has no oxygen value, the frame stored is
\* empty if oxygen is required and the transformed frame itself if it is
\* not; a frame with an oxygen value is stored as it is in both modes.
C9_OxygenGate ==
    [][FetchStep =>
          LET url == urls[i + 1]
              key == _float_profile(url)
              t == _profile_to_dataframe(dac[fidx], RemoteDS(url), call.eff_pressure)
          IN  (t.exc = "none" /\ "DOXY_ADJUSTED" \in t.df.cols /\ t.df.rows # <<>>)
              => /\ key \in DOMAIN store'
                 /\ store'[key] = IF OxygenMissing(t.df) /\ oxygen_required
                                   THEN EmptyDF ELSE t.df]_vars

\* C9's case: oxygen is not required, and the file holds both a frame without
\* any oxygen value, its other columns kept, and a frame with oxygen values
C9_Witness ==
    /\ ~oxygen_required
    /\ \E k \in ProfileKeys(store) :
          /\ OxygenMissing(store[k])
          /\ \E r \in 1..Len(store[k].rows) : store[k].rows[r].TEMP_ADJUSTED # NaN
    /\ \E k \in ProfileKeys(store) :
          /\ store[k].rows # <<>>
          /\ ~OxygenMissing(store[k])

\* the place of x in sequence s
PosIn(s, x) == CHOOSE k \in 1..Len(s) : s[k] = x
\* the float numbers of the registry (the global index), in its order
Registry == [k \in 1..Len(GlobalMetaFeed) |-> GlobalMetaFeed[k][2]]
\* the rows of the frames stored under the keys of log[k..], in the log's order
RECURSIVE RowsOf(_, _)
RowsOf(log, k) ==
    IF k > Len(log) THEN <<>>
    ELSE store[log[k].key].rows \o RowsOf(log, k + 1)
\* the log runs through the floats in the order of sequence order, through the
\* profiles of a float in the order of its listing, and the aggregate holds
\* the rows in the order of the log
OrderedBy(order) ==
    /\ \A a, b \in 1..Len(processed) :
          a < b =>
             LET pa == PosIn(order, processed[a].wmo)
                 pb == PosIn(order, processed[b].wmo)
             IN  pa < pb \/ (pa = pb /\ processed[a].i < processed[b].i)
    /\ \A a \in 1..Len(processed) :
          processed[a].key = _float_profile(seen[processed[a].wmo][processed[a].i + 1])
    /\ call.append_df => float_df.rows = RowsOf(processed, 1)

\* C10 (as claimed): the floats are processed in the order of the registry,
\* the profiles of a float in the order of its listing, and the rows of the
\* aggregate are in that order.
C10_RegistryOrder == OrderedBy(Registry)

\* C10 (amended): the floats are processed in the order in which the dict of
\* get_dac_urls iterates, the profiles of a float in the order of its listing,
\* and the rows of the aggregate are in that order.
C10_DictOrder == OrderedBy(dac)

\* C10's case: the dict iterates against the registry's order, and the
\* aggregate holds rows of two profiles of one float and of a second float
C10_Witness ==
    /\ dac = <<"2", "1">>
    /\ call.append_df
    /\ \E a, b, c \in 1..Len(processed) :
          /\ a < b /\ b < c
          /\ processed[a].wmo = "2" /\ processed[b].wmo = "2" /\ processed[c].wmo = "1"
          /\ store[processed[a].key].rows # <<>>
          /\ store[processed[b].key].rows # <<>>
          /\ store[processed[c].key].rows # <<>>

\* ---- get_oxy_floats_from_status and the store (under SpecStatus)

\* a call of get_oxy_floats_from_status has ended
StatusCalled == ret # NoRet

\* C11 (as claimed): only a KeyError of the read is taken as "not yet cached";
\* any other failure of the read is propagated to the caller, and then nothing
\* is fetched and nothing is put.
C11_OnlyNotFound ==
    (StatusCalled /\ ret.get = "IOError") =>
        /\ ret.exc = "IOError"
        /\ ret.fetched = 0
        /\ ~ret.put

\* the rows of the cached status table that the query of threshold age keeps
Kept(rows, age) ==
    {k \in 1..Len(rows) :
        /\ rows[k].OXYGEN = 1
        /\ rows[k].GREYLIST = 0
        /\ rows[k].AGE # 0
        /\ rows[k].AGE >= age}

\* C13: the list returned holds the identifiers of exactly the rows with
\* OXYGEN = 1, GREYLIST = 0, AGE # 0 and AGE >= age_gte, in the table's order;
\* a row of AGE 0 is left out at every threshold; the one row (1900650, 1, 0,
\* 400) at threshold 340 gives that one identifier.
C13_StatusFilter ==
    (StatusCalled /\ ret.exc = "none") =>
        LET rows == store[_STATUS].rows
            kept == Kept(rows, ret.age_gte)
        IN  /\ Len(ret.value) = Cardinality(kept)
            /\ \A k \in kept :
                  ret.value[Cardinality({j \in kept : j <= k})] = rows[k].WMO
            /\ \A k \in 1..Len(rows) : rows[k].AGE = 0 => k \notin kept
            /\ (rows = <<StatusRow(1900650, 1, 0, 400)>> /\ ret.age_gte = 340)
                  => ret.value = <<1900650>>

\* C13's case: the threshold is not positive, the table has a row of AGE 0
\* before a row that qualifies, and only the second is returned
C13_Witness ==
    /\ StatusCalled
    /\ ret.exc = "none"
    /\ ret.age_gte <= 0
    /\ Len(store[_STATUS].rows) = 2
    /\ store[_STATUS].rows[1].AGE = 0 /\ store[_STATUS].rows[1].OXYGEN = 1
    /\ store[_STATUS].rows[1].GREYLIST = 0
    /\ ret.value = <<store[_STATUS].rows[2].WMO>>

\* C16 (as claimed): once _get_df or _put_df has returned or raised, no handle
\* of the file is open.
C16_HandlesReleased == handles = 0

\* ---- failures inside get_float_dataframe (under Spec)

\* the entries of the running call's log for float wmo
EntriesOf(wmo) == {e \in Entries : e.wmo = wmo}
\* the catalog of the current float is about to be requested
AtCatalog == pc = "float" /\ fidx <= Len(dac)

\* C12: a connection failure at a float's catalog gives the empty listing
\* without leaving the call and without a write; no profile of that float is
\* processed, and every other float of the call is processed.
C12_CatalogFailure ==
    /\ [][(AtCatalog /\ faults' # faults) =>
             /\ pc' = "profile"
             /\ urls' = <<>>
             /\ fidx' = fidx
             /\ store' = store
             /\ processed' = processed
             /\ prev' = prev]_vars
    /\ [](AboutToReturn =>
             \A k \in 1..Len(dac) :
                /\ dac[k] \in DOMAIN seen
                /\ seen[dac[k]] = ConnectionError => EntriesOf(dac[k]) = {}
                /\ seen[dac[k]] # ConnectionError => EntriesOf(dac[k]) # {})

\* C12's case: the catalog of the first float failed, the second float was
\* processed, and the call is about to return
C12_Witness ==
    /\ AboutToReturn
    /\ Len(dac) = 2
    /\ seen[dac[1]] = ConnectionError
    /\ EntriesOf(dac[1]) = {}
    /\ \E e \in EntriesOf(dac[2]) : e.how = "save" /\ e.key \in DOMAIN store

\* the profile loop of a float is over and _repack_hdf is about to run
AtRepack == pc = "profile" /\ (i >= Len(urls) \/ StopAt(i, call.eff_profiles))

\* C15 (as claimed): a compaction, the one whose ptrepack fails included,
\* keeps every key with its frame and does not fail.
C15_RepackSafe ==
    [][AtRepack =>
          /\ pc' = "float"
          /\ fidx' = fidx + 1
          /\ store' = store]_vars

\* C18 (as claimed): every row of the aggregate of a call has a pressure
\* strictly less than the call's effective max_pressure (pressures are in
\* hundredths of a decibar, max_pressure in decibars).
C18_PressureBelowMax ==
    \A k \in 1..Len(float_df.rows) :
        float_df.rows[k].pressure \div 100 < call.eff_pressure

\* the transform of a profile runs and the data server fails on a variable
FaultyFetchStep == InLoop /\ nXform' # nXform /\ faults' # faults

\* C19 (as claimed): a server error on one variable of a profile does not end
\* the processing: the profile is stored without that column, with the other
\* columns, and the loop goes on.
C19_ServerErrorSkipped ==
    [][FaultyFetchStep =>
          LET key == _float_profile(urls[i + 1])
          IN  /\ pc' = "profile"
              /\ i' = i + 1
              /\ key \in DOMAIN store'
              /\ \/ store'[key] = EmptyDF
                 \/ store'[key].cols =
                        DataVariables \ processed'[Len(processed')].fault]_vars

\* ---- the effective limits (under SpecNaming)

\* C17 (as claimed): a set, non-zero request is never exceeded by the
\* effective value, whatever the cache file; the unlimited value is returned
\* only when neither the caller nor the file gives a value.
C17_NeverLoosens ==
    vcall # <<>> =>
        LET r == vcall[1].value
            out == vcall[1].result
        IN  /\ Truthy(r) => out <= Val(r)
            /\ out = Unlimited => (~Truthy(r) /\ ~(Declared /\ DeclaredValue > 0))

\* ---- the profile key (under SpecKey)

RowKey(row) == <<row.wmo, row.time, row.lon, row.lat, row.pressure>>

\* C20 (as claimed): no two rows of a frame made by _profile_to_dataframe
\* have the same (wmo, time, lon, lat, pressure).
C20_UniqueRowKeys ==
    (ret # NoRet /\ ret.exc = "none") =>
        \A a, b \in 1..Len(ret.df.rows) :
            a # b => RowKey(ret.df.rows[a]) # RowKey(ret.df.rows[b])

\* ---- the selection of the pressures (under SpecPressures)

\* the positions (from 1) of the axis whose pressure is >= max_pressure
AtOrAbove(pres, max_pressure) ==
    {n \in 1..Len(pres) : ~(pres[n] \div 100 < max_pressure)}
\* the number of levels before the first of them
PrefixLen(pres, max_pressure) ==
    IF AtOrAbove(pres, max_pressure) = {} THEN Len(pres)
    ELSE (CHOOSE n \in AtOrAbove(pres, max_pressure) :
              \A m \in AtOrAbove(pres, max_pressure) : n <= m) - 1

\* C21: the indices kept are 0..k-1 and the pressures kept are the first k of
\* the axis, k being the number of levels before the first pressure that is
\* >= max_pressure (all of them if there is none); a selection of nothing
\* gives an empty frame and no exception.
C21_PressurePrefix ==
    ret # NoRet =>
        LET k == PrefixLen(input.pres, input.max_pressure)
        IN  /\ ret.value.pres_indices = [n \in 1..k |-> n - 1]
            /\ ret.value.pressures = [n \in 1..k |-> input.pres[n]]
            /\ ret.table.exc = "none"
            /\ Len(ret.table.df.rows) = k
            /\ k = 0 => ret.table.df = EmptyDF

\* C21's case: a pressure below max_pressure comes after one that is not,
\* and is dropped
C21_Witness ==
    /\ ret # NoRet
    /\ input.max_pressure = 10
    /\ input.pres = <<501, 1500, 504>>
    /\ ret.value.pres_indices = <<0>>
    /\ ret.value.pressures = <<501>>

\* ---- compaction inside get_float_dataframe (under Spec)

\* the places in the log of the profiles of float wmo
PlacesOf(wmo) == {n \in 1..Len(processed) : processed[n].wmo = wmo}

\* C22: when the call is about to return, _repack_hdf has run once for each
\* float that has a catalog URL, in their order, a float without profiles
\* included, and for no other float id of wmo_list; each run came after every
\* read and put of its float's profiles and before those of the next float.
C22_RepackPerFloat ==
    /\ [](AboutToReturn =>
             /\ Len(repacks) = Len(dac)
             /\ \A k \in 1..Len(dac) :
                   /\ repacks[k].wmo = dac[k]
                   /\ \A n \in PlacesOf(dac[k]) : n <= repacks[k].at
                   /\ \A j \in (k + 1)..Len(dac) :
                         \A n \in PlacesOf(dac[j]) : n > repacks[k].at
             /\ \A k \in 1..Len(call.wmo_list) :
                   ~InList(call.wmo_list[k], Registry) =>
                       \A r \in 1..Len(repacks) : repacks[r].wmo # call.wmo_list[k])
    /\ [][repacks' # repacks /\ pc' # "idle" => store' = store /\ processed' = processed]_vars

\* C22's case: of the two float ids asked for one has no registry entry, the
\* other listed no profile (its catalog could not be fetched), and
\* _repack_hdf has run once, for the second
C22_Witness ==
    /\ AboutToReturn
    /\ call.wmo_list = <<"3", "1">>
    /\ seen["1"] = ConnectionError
    /\ processed = <<>>
    /\ repacks = <<[wmo |-> "1", at |-> 0]>>

\* ---- the key of every listed location (under SpecListing)

\* C23: every location that get_profile_opendap_urls returns has a key:
\* _float_profile raises for none of them, and the profile loop derives a key
\* for each.
C23_KeyTotal ==
    ret # NoRet =>
        /\ ret.exc = "none"
        /\ Len(ret.keys) = Len(ret.urls)
        /\ \A k \in 1..Len(ret.urls) : _float_profile(ret.urls[k]) # <<>>

====
